---- MODULE Spec2Model ----
(***************************************************************************)
(* Model of the apple-mcp tool server: the CallTool request handler, its   *)
(* argument type guards, and the reminders / calendar utilities that fan   *)
(* one operation out over every reminder list / calendar.                  *)
(*                                                                         *)
(* Strings are sequences of tokens (a token is a character or a literal    *)
(* fragment of a message), so that includes() and toLowerCase() are        *)
(* computed and not assumed.  A timestamp is a number of minutes.          *)
(***************************************************************************)
EXTENDS Integers, Sequences, FiniteSets, TLC

(***************************************************************************)
(* Bounds of the model.                                                    *)
(***************************************************************************)
NumLists == 2          \* reminder lists of the Reminders app
NumCalendars == 3      \* calendars of the Calendar app
MaxInitItems == 1      \* items per list / calendar in the initial state
MaxCreated == 1        \* successful create calls in one behaviour

(***************************************************************************)
(* JavaScript values of the arguments object.                              *)
(***************************************************************************)
Undefined == [t |-> "undefined"]
Str(s) == [t |-> "string", s |-> s]
Num(n) == [t |-> "number", n |-> n]
Null == [t |-> "null"]

\* JavaScript truthiness, as used by `!x` and `x && ...`
Truthy(v) ==
  CASE v.t = "undefined" -> FALSE
    [] v.t = "null" -> FALSE
    [] v.t = "string" -> v.s # <<>>
    [] v.t = "number" -> v.n # 0
    [] OTHER -> TRUE

TypeOf(v) == IF v.t = "null" THEN "object" ELSE v.t

IsNull(v) == "t" \in DOMAIN v /\ v.t = "null"

(***************************************************************************)
(* String.prototype.toLowerCase and String.prototype.includes.             *)
(*                                                                         *)
(* The letters of the model are A, B (lower case a, b), c, and the Greek   *)
(* sigma: "S" is the capital sigma, "s" the small sigma and "z" the small  *)
(* final sigma.  toLowerCase follows the Unicode case mappings, the        *)
(* context-sensitive one of SpecialCasing.txt (Final_Sigma) included: a    *)
(* capital sigma that follows a cased letter and is not followed by one    *)
(* becomes the final sigma.  The texts of the model hold no case-ignorable *)
(* character.                                                              *)
(***************************************************************************)
CasedLetters == {"A", "B", "S", "a", "b", "c", "s", "z"}

toLowerCaseChar(c) ==
  CASE c = "A" -> "a"
    [] c = "B" -> "b"
    [] c = "S" -> "s"
    [] OTHER -> c

\* the condition Final_Sigma for position i of s
FinalSigma(s, i) ==
  /\ i > 1
  /\ s[i - 1] \in CasedLetters
  /\ i < Len(s) => s[i + 1] \notin CasedLetters

toLowerCase(s) ==
  [i \in 1..Len(s) |-> IF s[i] = "S" /\ FinalSigma(s, i) THEN "z"
                        ELSE toLowerCaseChar(s[i])]

includes(s, t) ==
  \E i \in 0..(Len(s) - Len(t)) : SubSeq(s, i + 1, i + Len(t)) = t

(***************************************************************************)
(* Dates.  new Date(string) parses, toISOString() and toString() format.   *)
(* The ISO form of minute n is the token "T" followed by n marks, the      *)
(* toString() form is the token "D" followed by n marks.                   *)
(***************************************************************************)
Marks(n) == [i \in 1..n |-> "'"]

InvalidDate == [t |-> "date", valid |-> FALSE, ms |-> 0]
DateOf(n) == [t |-> "date", valid |-> TRUE, ms |-> n]

toISOString(d) == <<"T">> \o Marks(d.ms)
dateToString(d) == <<"D">> \o Marks(d.ms)

NewDate(s) ==
  IF /\ Len(s) >= 1
     /\ s[1] \in {"T", "D"}
     /\ \A i \in 2..Len(s) : s[i] = "'"
  THEN DateOf(Len(s) - 1)
  ELSE InvalidDate

(***************************************************************************)
(* Outcome of a call: a returned value or a thrown Error, the bridge calls *)
(* it made, and the backing store it leaves.                               *)
(***************************************************************************)
Return(v, calls, st) ==
  [thrown |-> FALSE, val |-> v, msg |-> <<>>, calls |-> calls, st |-> st]
Throw(m, calls, st) ==
  [thrown |-> TRUE, val |-> <<>>, msg |-> m, calls |-> calls, st |-> st]

\* one call of the automation bridge
Call(c, d, src, ok, ph) ==
  [call |-> c, domain |-> d, src |-> src, ok |-> ok, phase |-> ph]

BridgeError == <<"bridge failure">>
RangeError == <<"Invalid time value">>

(***************************************************************************)
(* utils/calendar.ts                                                       *)
(*                                                                         *)
(* A calendar is a sequence of event objects                               *)
(*   [id, summary, description, location, startDate, endDate].             *)
(* env holds what the outside world does during one handler call: p1, p2   *)
(* are the results of the first and second access probe, run tells whether *)
(* the bridge scripts can enumerate the backing stores at all, f is the    *)
(* set of sources that raise when a script reads or searches them.         *)
(***************************************************************************)
CalendarName(c) == <<"Calendar">> \o Marks(c)

CalendarAccessPath == "System Preferences > Security & Privacy > Privacy > Calendars"
RemindersAccessPath == "System Preferences > Security & Privacy > Privacy > Reminders"

\* checkCalendarAccess that reports a failed probe as false
checkCalendarAccessReturnsFalse(ok, ph, st) ==
  Return(ok, <<Call("probe", "calendar", 0, ok, ph)>>, st)

checkCalendarAccess(ok, ph, st) ==
  IF ok
  THEN Return(TRUE, <<Call("probe", "calendar", 0, TRUE, ph)>>, st)
  ELSE Throw(<<"Cannot access Calendar app. Please grant access in ",
               CalendarAccessPath, ".">>,
             <<Call("probe", "calendar", 0, FALSE, ph)>>, st)

\* the CalendarEvent record built from an event object of calendar c
CalendarEventOf(e, c) ==
  [id |-> e.id,
   title |-> e.summary,
   description |-> e.description,
   startDate |-> dateToString(DateOf(e.startDate)),
   endDate |-> dateToString(DateOf(e.endDate)),
   location |-> e.location,
   calendarName |-> CalendarName(c)]

MapEvents(objs) == [i \in 1..Len(objs) |-> CalendarEventOf(objs[i].ev, objs[i].cal)]

EventObjects(cals, c) == [i \in 1..Len(cals[c]) |-> [ev |-> cals[c][i], cal |-> c]]

\* for (const calendar of allCalendars) { try { ... } catch { skip } }
RECURSIVE AllEventsLoop(_, _, _, _, _, _)

\* AllEventsLoop that stops at the first calendar that raises
AllEventsLoopStops(cals, f, ph, c, allEvents, calls) ==
  IF c > Len(cals)
  THEN [events |-> allEvents, calls |-> calls]
  ELSE IF c \in f
       THEN [events |-> allEvents,
             calls |-> Append(calls, Call("readAll", "calendar", c, FALSE, ph))]
       ELSE AllEventsLoop(cals, f, ph, c + 1, allEvents \o EventObjects(cals, c),
                          Append(calls, Call("readAll", "calendar", c, TRUE, ph)))

AllEventsLoop(cals, f, ph, c, allEvents, calls) ==
  IF c > Len(cals)
  THEN [events |-> allEvents, calls |-> calls]
  ELSE IF c \in f
       THEN AllEventsLoop(cals, f, ph, c + 1, allEvents,
                          Append(calls, Call("readAll", "calendar", c, FALSE, ph)))
       ELSE AllEventsLoop(cals, f, ph, c + 1, allEvents \o EventObjects(cals, c),
                          Append(calls, Call("readAll", "calendar", c, TRUE, ph)))

WrapThrow(prefix, o) == Throw(<<prefix>> \o o.msg, o.calls, o.st)

getAllEvents(cals, pOk, runOk, f, ph) ==
  LET access == checkCalendarAccess(pOk, ph, cals) IN
  IF access.thrown
  THEN WrapThrow("Error accessing calendar events: ", access)
  ELSE IF ~access.val THEN Return(<<>>, access.calls, cals)
  ELSE IF ~runOk
       THEN Throw(<<"Error accessing calendar events: ">> \o BridgeError,
                  Append(access.calls,
                         Call("listBackingStores", "calendar", 0, FALSE, ph)),
                  cals)
       ELSE LET loop == AllEventsLoop(cals, f, ph, 1, <<>>,
                          Append(access.calls,
                                 Call("listBackingStores", "calendar", 0, TRUE, ph)))
            IN Return(MapEvents(loop.events), loop.calls, cals)

\* calendar.events.whose({startDate >= start, endDate <= end})
EventsWhose(objs, startDateObj, endDateObj) ==
  SelectSeq(objs, LAMBDA o : /\ o.ev.startDate >= startDateObj.ms
                             /\ o.ev.endDate <= endDateObj.ms)

\* the text filter of the search script
EventTextMatch(o, searchText) ==
  \/ includes(o.ev.summary, searchText)
  \/ includes(o.ev.description, searchText)
  \/ includes(o.ev.location, searchText)

\* the dates as the script sees them: parsed back from their ISO strings
ScriptDate(d) == IF d.t = "undefined" THEN Null ELSE NewDate(toISOString(d))

RECURSIVE FindEventsLoop(_, _, _, _, _, _, _, _)
FindEventsLoop(cals, f, searchText, startDateObj, endDateObj, c, matchingEvents, calls) ==
  IF c > Len(cals)
  THEN [events |-> matchingEvents, calls |-> calls]
  ELSE IF c \in f
       THEN FindEventsLoop(cals, f, searchText, startDateObj, endDateObj, c + 1,
                           matchingEvents,
                           Append(calls, Call("searchByPredicate", "calendar", c, FALSE, 1)))
       ELSE LET eventsInCalendar ==
                  IF Truthy(startDateObj) /\ Truthy(endDateObj)
                  THEN EventsWhose(EventObjects(cals, c), startDateObj, endDateObj)
                  ELSE EventObjects(cals, c)
                filtered == SelectSeq(eventsInCalendar,
                                      LAMBDA o : EventTextMatch(o, searchText))
            IN FindEventsLoop(cals, f, searchText, startDateObj, endDateObj, c + 1,
                              matchingEvents \o filtered,
                              Append(calls, Call("searchByPredicate", "calendar", c, TRUE, 1)))

\* the broader search of findEvents over the result of getAllEvents
EventBroadMatch(event, searchText) ==
  \/ includes(toLowerCase(event.title), toLowerCase(searchText))
  \/ includes(toLowerCase(event.description), toLowerCase(searchText))
  \/ includes(toLowerCase(event.location), toLowerCase(searchText))

\* FindEventsFallsBack that ignores the dates
FindEventsFallsBackOnEmpty(events, startDate, endDate) == Len(events) = 0

\* FindEventsFallsBack that forgets the end date
FindEventsFallsBackIgnoresEndDate(events, startDate, endDate) ==
  Len(events) = 0 /\ ~Truthy(startDate)

\* if (events.length === 0 && !startDate && !endDate)
FindEventsFallsBack(events, startDate, endDate) ==
  Len(events) = 0 /\ ~Truthy(startDate) /\ ~Truthy(endDate)

findEvents(cals, searchText, startDate, endDate, env) ==
  LET access == checkCalendarAccess(env.p1, 1, cals) IN
  IF access.thrown
  THEN WrapThrow("Error finding calendar events: ", access)
  ELSE IF ~access.val THEN Return(<<>>, access.calls, cals)
  ELSE IF \/ (startDate.t = "date" /\ ~startDate.valid)
          \/ (endDate.t = "date" /\ ~endDate.valid)
       THEN Throw(<<"Error finding calendar events: ">> \o RangeError,
                  access.calls, cals)
       ELSE IF ~env.run
            THEN Throw(<<"Error finding calendar events: ">> \o BridgeError,
                       Append(access.calls,
                              Call("listBackingStores", "calendar", 0, FALSE, 1)),
                       cals)
            ELSE LET loop == FindEventsLoop(cals, env.f, searchText,
                               ScriptDate(startDate), ScriptDate(endDate), 1, <<>>,
                               Append(access.calls,
                                      Call("listBackingStores", "calendar", 0, TRUE, 1)))
                     events == MapEvents(loop.events)
                 IN IF FindEventsFallsBack(events, startDate, endDate)
                    THEN LET all == getAllEvents(cals, env.p2, env.run, env.f, 2) IN
                         IF all.thrown
                         THEN Throw(<<"Error finding calendar events: ">> \o all.msg,
                                    loop.calls \o all.calls, cals)
                         ELSE Return(SelectSeq(all.val,
                                       LAMBDA event : EventBroadMatch(event, searchText)),
                                     loop.calls \o all.calls, cals)
                    ELSE Return(events, loop.calls, cals)

\* ids the applications hand out: the token "x" followed by n marks
IdOf(n) == <<"x">> \o Marks(n)

\* the id a backing store gives a new item: the first one it does not use yet
RECURSIVE FreshIdFrom(_, _)
FreshIdFrom(items, n) ==
  IF \E i \in 1..Len(items) : items[i].id = IdOf(n)
  THEN FreshIdFrom(items, n + 1)
  ELSE IdOf(n)

FreshId(items) == FreshIdFrom(items, 1)

createEvent(cals, title, startDate, duration, description, location, env) ==
  LET access == checkCalendarAccess(env.p1, 1, cals) IN
  IF access.thrown
  THEN WrapThrow("Error creating calendar event: ", access)
  ELSE IF ~access.val THEN Return(Null, access.calls, cals)
  ELSE IF ~startDate.valid
       THEN Throw(<<"Error creating calendar event: ">> \o RangeError,
                  access.calls, cals)
       ELSE LET endDate == DateOf(startDate.ms + duration) IN
            IF ~env.run
            THEN Throw(<<"Error creating calendar event: ">> \o BridgeError,
                       Append(access.calls, Call("insert", "calendar", 1, FALSE, 1)),
                       cals)
            ELSE LET event == [id |-> FreshId(cals[1]),
                               summary |-> title,
                               description |-> description,
                               location |-> location,
                               startDate |-> NewDate(toISOString(startDate)).ms,
                               endDate |-> NewDate(toISOString(endDate)).ms]
                 IN Return(CalendarEventOf(event, 1),
                           Append(access.calls, Call("insert", "calendar", 1, TRUE, 1)),
                           [cals EXCEPT ![1] = Append(@, event)])

(***************************************************************************)
(* utils/reminders.ts                                                      *)
(*                                                                         *)
(* A reminder list is a sequence of reminder objects                       *)
(*   [id, name, body, dueDate, completed].                                 *)
(***************************************************************************)
checkRemindersAccess(ok, ph, st) ==
  IF ok
  THEN Return(TRUE, <<Call("probe", "reminders", 0, TRUE, ph)>>, st)
  ELSE Throw(<<"Cannot access Reminders app. Please grant access in ",
               RemindersAccessPath, ".">>,
             <<Call("probe", "reminders", 0, FALSE, ph)>>, st)

\* the Reminder record built from a reminder object
ReminderOf(r) ==
  [id |-> r.id,
   title |-> r.name,
   notes |-> r.body,
   dueDate |-> IF Truthy(r.dueDate) THEN Str(dateToString(r.dueDate)) ELSE Null,
   isCompleted |-> r.completed]

MapReminders(objs) == [i \in 1..Len(objs) |-> ReminderOf(objs[i])]

\* for (const list of allLists) { ... }: a list that raises ends the script
RECURSIVE AllRemindersLoop(_, _, _, _, _, _)
AllRemindersLoop(lists, f, ph, l, allReminders, calls) ==
  IF l > Len(lists)
  THEN [thrown |-> FALSE, reminders |-> allReminders, calls |-> calls]
  ELSE IF l \in f
       THEN [thrown |-> TRUE, reminders |-> <<>>,
             calls |-> Append(calls, Call("readAll", "reminders", l, FALSE, ph))]
       ELSE AllRemindersLoop(lists, f, ph, l + 1, allReminders \o lists[l],
                             Append(calls, Call("readAll", "reminders", l, TRUE, ph)))

getAllReminders(lists, pOk, runOk, f, ph) ==
  LET access == checkRemindersAccess(pOk, ph, lists) IN
  IF access.thrown
  THEN WrapThrow("Error accessing reminders: ", access)
  ELSE IF ~access.val THEN Return(<<>>, access.calls, lists)
  ELSE IF ~runOk
       THEN Throw(<<"Error accessing reminders: ">> \o BridgeError,
                  Append(access.calls,
                         Call("listBackingStores", "reminders", 0, FALSE, ph)),
                  lists)
       ELSE LET loop == AllRemindersLoop(lists, f, ph, 1, <<>>,
                          Append(access.calls,
                                 Call("listBackingStores", "reminders", 0, TRUE, ph)))
            IN IF loop.thrown
               THEN Throw(<<"Error accessing reminders: ">> \o BridgeError,
                          loop.calls, lists)
               ELSE Return(MapReminders(loop.reminders), loop.calls, lists)

\* list.reminders.whose({_or: [{name: {_contains}}, {body: {_contains}}]})
ReminderWhoseMatch(r, searchText) ==
  includes(r.name, searchText) \/ includes(r.body, searchText)

RECURSIVE FindRemindersLoop(_, _, _, _, _, _)
FindRemindersLoop(lists, f, searchText, l, matchingReminders, calls) ==
  IF l > Len(lists)
  THEN [thrown |-> FALSE, reminders |-> matchingReminders, calls |-> calls]
  ELSE IF l \in f
       THEN [thrown |-> TRUE, reminders |-> <<>>,
             calls |-> Append(calls, Call("searchByPredicate", "reminders", l, FALSE, 1))]
       ELSE FindRemindersLoop(lists, f, searchText, l + 1,
              matchingReminders
                \o SelectSeq(lists[l], LAMBDA r : ReminderWhoseMatch(r, searchText)),
              Append(calls, Call("searchByPredicate", "reminders", l, TRUE, 1)))

\* the broader search of findReminders over the result of getAllReminders
ReminderBroadMatch(reminder, searchText) ==
  \/ includes(toLowerCase(reminder.title), toLowerCase(searchText))
  \/ includes(toLowerCase(reminder.notes), toLowerCase(searchText))

\* if (reminders.length === 0)
FindRemindersFallsBack(reminders) == Len(reminders) = 0

findReminders(lists, searchText, env) ==
  LET access == checkRemindersAccess(env.p1, 1, lists) IN
  IF access.thrown
  THEN WrapThrow("Error finding reminders: ", access)
  ELSE IF ~access.val THEN Return(<<>>, access.calls, lists)
  ELSE IF ~env.run
       THEN Throw(<<"Error finding reminders: ">> \o BridgeError,
                  Append(access.calls,
                         Call("listBackingStores", "reminders", 0, FALSE, 1)),
                  lists)
       ELSE LET loop == FindRemindersLoop(lists, env.f, searchText, 1, <<>>,
                          Append(access.calls,
                                 Call("listBackingStores", "reminders", 0, TRUE, 1)))
                reminders == MapReminders(loop.reminders)
            IN IF loop.thrown
               THEN Throw(<<"Error finding reminders: ">> \o BridgeError,
                          loop.calls, lists)
               ELSE IF FindRemindersFallsBack(reminders)
                    THEN LET all == getAllReminders(lists, env.p2, env.run, env.f, 2) IN
                         IF all.thrown
                         THEN Throw(<<"Error finding reminders: ">> \o all.msg,
                                    loop.calls \o all.calls, lists)
                         ELSE Return(SelectSeq(all.val,
                                       LAMBDA reminder : ReminderBroadMatch(reminder, searchText)),
                                     loop.calls \o all.calls, lists)
                    ELSE Return(reminders, loop.calls, lists)

\* createReminder that does not pass the notes to the script
createReminderDropsNotes(lists, title, notes, dueDate, env) ==
  LET access == checkRemindersAccess(env.p1, 1, lists) IN
  IF access.thrown
  THEN WrapThrow("Error creating reminder: ", access)
  ELSE IF ~access.val THEN Return(Null, access.calls, lists)
  ELSE IF dueDate.t = "date" /\ ~dueDate.valid
       THEN Throw(<<"Error creating reminder: ">> \o RangeError, access.calls, lists)
       ELSE IF ~env.run
            THEN Throw(<<"Error creating reminder: ">> \o BridgeError,
                       Append(access.calls, Call("insert", "reminders", 1, FALSE, 1)),
                       lists)
            ELSE LET reminder == [id |-> FreshId(lists[1]),
                                  name |-> title,
                                  body |-> <<>>,
                                  dueDate |-> IF dueDate.t = "date"
                                              THEN NewDate(toISOString(dueDate))
                                              ELSE Null,
                                  completed |-> FALSE]
                 IN Return(ReminderOf(reminder),
                           Append(access.calls, Call("insert", "reminders", 1, TRUE, 1)),
                           [lists EXCEPT ![1] = Append(@, reminder)])

\* dueDate is undefined or a Date
createReminder(lists, title, notes, dueDate, env) ==
  LET access == checkRemindersAccess(env.p1, 1, lists) IN
  IF access.thrown
  THEN WrapThrow("Error creating reminder: ", access)
  ELSE IF ~access.val THEN Return(Null, access.calls, lists)
  ELSE IF dueDate.t = "date" /\ ~dueDate.valid
       THEN Throw(<<"Error creating reminder: ">> \o RangeError, access.calls, lists)
       ELSE IF ~env.run
            THEN Throw(<<"Error creating reminder: ">> \o BridgeError,
                       Append(access.calls, Call("insert", "reminders", 1, FALSE, 1)),
                       lists)
            ELSE LET reminder == [id |-> FreshId(lists[1]),
                                  name |-> title,
                                  body |-> notes,
                                  dueDate |-> IF dueDate.t = "date"
                                              THEN NewDate(toISOString(dueDate))
                                              ELSE Null,
                                  completed |-> FALSE]
                 IN Return(ReminderOf(reminder),
                           Append(access.calls, Call("insert", "reminders", 1, TRUE, 1)),
                           [lists EXCEPT ![1] = Append(@, reminder)])

\* position of the first reminder of a list whose id is id, 0 when none
RECURSIVE FirstWithId(_, _, _)
FirstWithId(remindersInList, id, i) ==
  IF i > Len(remindersInList) THEN 0
  ELSE IF remindersInList[i].id = id THEN i
  ELSE FirstWithId(remindersInList, id, i + 1)

\* the search loop of completeReminder: target is <<list, position>> or <<>>
RECURSIVE CompleteLoop(_, _, _, _, _)

\* CompleteLoop without the break: a later list with the id wins
CompleteLoopKeepsSearching(lists, f, id, l, calls) ==
  IF l > Len(lists)
  THEN [thrown |-> FALSE, target |-> <<>>, calls |-> calls]
  ELSE IF l \in f
       THEN [thrown |-> TRUE, target |-> <<>>,
             calls |-> Append(calls, Call("readAll", "reminders", l, FALSE, 1))]
       ELSE LET i == FirstWithId(lists[l], id, 1)
                read == Append(calls, Call("readAll", "reminders", l, TRUE, 1))
                rest == CompleteLoop(lists, f, id, l + 1, read)
            IN IF i # 0 /\ ~rest.thrown /\ rest.target = <<>>
               THEN [thrown |-> FALSE, target |-> <<l, i>>, calls |-> rest.calls]
               ELSE rest

CompleteLoop(lists, f, id, l, calls) ==
  IF l > Len(lists)
  THEN [thrown |-> FALSE, target |-> <<>>, calls |-> calls]
  ELSE IF l \in f
       THEN [thrown |-> TRUE, target |-> <<>>,
             calls |-> Append(calls, Call("readAll", "reminders", l, FALSE, 1))]
       ELSE LET i == FirstWithId(lists[l], id, 1)
                read == Append(calls, Call("readAll", "reminders", l, TRUE, 1))
            IN IF i # 0
               THEN [thrown |-> FALSE, target |-> <<l, i>>, calls |-> read]
               ELSE CompleteLoop(lists, f, id, l + 1, read)

\* completeReminder that reports success when no reminder has the id
completeReminderReportsSuccess(lists, id, env) ==
  LET access == checkRemindersAccess(env.p1, 1, lists) IN
  IF access.thrown
  THEN WrapThrow("Error completing reminder: ", access)
  ELSE IF ~access.val THEN Return(FALSE, access.calls, lists)
  ELSE IF ~env.run
       THEN Throw(<<"Error completing reminder: ">> \o BridgeError,
                  Append(access.calls,
                         Call("listBackingStores", "reminders", 0, FALSE, 1)),
                  lists)
       ELSE LET loop == CompleteLoop(lists, env.f, id, 1,
                          Append(access.calls,
                                 Call("listBackingStores", "reminders", 0, TRUE, 1)))
            IN IF loop.thrown
               THEN Throw(<<"Error completing reminder: ">> \o BridgeError,
                          loop.calls, lists)
               ELSE IF loop.target # <<>>
                    THEN Return(TRUE,
                           Append(loop.calls,
                                  Call("setField", "reminders", loop.target[1], TRUE, 1)),
                           [lists EXCEPT ![loop.target[1]][loop.target[2]].completed = TRUE])
                    ELSE Return(TRUE, loop.calls, lists)

\* completeReminder that flips the completed flag of the reminder
completeReminderToggles(lists, id, env) ==
  LET access == checkRemindersAccess(env.p1, 1, lists) IN
  IF access.thrown
  THEN WrapThrow("Error completing reminder: ", access)
  ELSE IF ~access.val THEN Return(FALSE, access.calls, lists)
  ELSE IF ~env.run
       THEN Throw(<<"Error completing reminder: ">> \o BridgeError,
                  Append(access.calls,
                         Call("listBackingStores", "reminders", 0, FALSE, 1)),
                  lists)
       ELSE LET loop == CompleteLoop(lists, env.f, id, 1,
                          Append(access.calls,
                                 Call("listBackingStores", "reminders", 0, TRUE, 1)))
            IN IF loop.thrown
               THEN Throw(<<"Error completing reminder: ">> \o BridgeError,
                          loop.calls, lists)
               ELSE IF loop.target # <<>>
                    THEN Return(TRUE,
                           Append(loop.calls,
                                  Call("setField", "reminders", loop.target[1], TRUE, 1)),
                           [lists EXCEPT ![loop.target[1]][loop.target[2]].completed = ~@])
                    ELSE Return(FALSE, loop.calls, lists)

completeReminder(lists, id, env) ==
  LET access == checkRemindersAccess(env.p1, 1, lists) IN
  IF access.thrown
  THEN WrapThrow("Error completing reminder: ", access)
  ELSE IF ~access.val THEN Return(FALSE, access.calls, lists)
  ELSE IF ~env.run
       THEN Throw(<<"Error completing reminder: ">> \o BridgeError,
                  Append(access.calls,
                         Call("listBackingStores", "reminders", 0, FALSE, 1)),
                  lists)
       ELSE LET loop == CompleteLoop(lists, env.f, id, 1,
                          Append(access.calls,
                                 Call("listBackingStores", "reminders", 0, TRUE, 1)))
            IN IF loop.thrown
               THEN Throw(<<"Error completing reminder: ">> \o BridgeError,
                          loop.calls, lists)
               ELSE IF loop.target # <<>>
                    THEN Return(TRUE,
                           Append(loop.calls,
                                  Call("setField", "reminders", loop.target[1], TRUE, 1)),
                           [lists EXCEPT ![loop.target[1]][loop.target[2]].completed = TRUE])
                    ELSE Return(FALSE, loop.calls, lists)

(***************************************************************************)
(* The arguments object and the type guards of the request handler.        *)
(* An arguments object maps every property name to its value, Undefined    *)
(* for a property it does not have.                                        *)
(***************************************************************************)
Fields ==
  {"operation", "name", "searchText", "phoneNumber", "message", "limit",
   "scheduledTime", "title", "notes", "dueDate", "id", "startDate", "endDate",
   "description", "location", "duration"}

Obj(o) == [t |-> "object", o |-> o]

IsObject(args) == TypeOf(args) = "object" /\ args.t # "null"

\* ["send", ...].includes(operation)
OperationIn(operation, ops) == operation.t = "string" /\ operation.s \in ops

\* if (x && typeof x !== type) return false
WrongType(v, type) == Truthy(v) /\ TypeOf(v) # type

isContactsArgs(args) ==
  /\ IsObject(args)
  /\ (args.o["name"].t = "undefined" \/ TypeOf(args.o["name"]) = "string")

isNotesArgs(args) ==
  /\ IsObject(args)
  /\ (args.o["searchText"].t = "undefined" \/ TypeOf(args.o["searchText"]) = "string")

MessagesOperations == {<<"send">>, <<"read">>, <<"schedule">>, <<"unread">>}
RemindersOperations == {<<"list">>, <<"find">>, <<"create">>, <<"complete">>}
CalendarOperations == {<<"list">>, <<"find">>, <<"create">>}

isMessagesArgs(args) ==
  IF ~IsObject(args) THEN FALSE
  ELSE LET operation == args.o["operation"]
           phoneNumber == args.o["phoneNumber"]
           message == args.o["message"]
           limit == args.o["limit"]
           scheduledTime == args.o["scheduledTime"]
       IN IF ~Truthy(operation) \/ ~OperationIn(operation, MessagesOperations)
          THEN FALSE
          ELSE /\ operation.s \in {<<"send">>, <<"schedule">>}
                    => Truthy(phoneNumber) /\ Truthy(message)
               /\ operation.s = <<"schedule">> => Truthy(scheduledTime)
               /\ operation.s = <<"read">> => Truthy(phoneNumber)
               /\ ~WrongType(phoneNumber, "string")
               /\ ~WrongType(message, "string")
               /\ ~WrongType(limit, "number")
               /\ ~WrongType(scheduledTime, "string")

isRemindersArgs(args) ==
  IF ~IsObject(args) THEN FALSE
  ELSE LET operation == args.o["operation"]
           searchText == args.o["searchText"]
           title == args.o["title"]
           notes == args.o["notes"]
           dueDate == args.o["dueDate"]
           id == args.o["id"]
       IN IF ~Truthy(operation) \/ ~OperationIn(operation, RemindersOperations)
          THEN FALSE
          ELSE /\ operation.s = <<"find">> => Truthy(searchText)
               /\ operation.s = <<"create">> => Truthy(title)
               /\ operation.s = <<"complete">> => Truthy(id)
               /\ ~WrongType(searchText, "string")
               /\ ~WrongType(title, "string")
               /\ ~WrongType(notes, "string")
               /\ ~WrongType(dueDate, "string")
               /\ ~WrongType(id, "string")

isCalendarArgs(args) ==
  IF ~IsObject(args) THEN FALSE
  ELSE LET operation == args.o["operation"]
           searchText == args.o["searchText"]
           startDate == args.o["startDate"]
           endDate == args.o["endDate"]
           title == args.o["title"]
           description == args.o["description"]
           location == args.o["location"]
           duration == args.o["duration"]
       IN IF ~Truthy(operation) \/ ~OperationIn(operation, CalendarOperations)
          THEN FALSE
          ELSE /\ operation.s = <<"find">> => Truthy(searchText)
               /\ operation.s = <<"create">>
                    => Truthy(title) /\ Truthy(startDate) /\ Truthy(duration)
               /\ ~WrongType(searchText, "string")
               /\ ~WrongType(startDate, "string")
               /\ ~WrongType(endDate, "string")
               /\ ~WrongType(title, "string")
               /\ ~WrongType(description, "string")
               /\ ~WrongType(location, "string")
               /\ ~WrongType(duration, "number")

(***************************************************************************)
(* utils/contacts, utils/notes and utils/message: one call of a utility    *)
(* either returns (an empty or a non-empty collection) or throws.          *)
(***************************************************************************)
ExternalUtil(domain, fn, ok, some, ph) ==
  IF ok
  THEN Return(IF some THEN <<"item">> ELSE <<>>,
              <<Call(fn, domain, 0, TRUE, ph)>>, <<>>)
  ELSE Throw(BridgeError, <<Call(fn, domain, 0, FALSE, ph)>>, <<>>)

(***************************************************************************)
(* The CallTool request handler.  An outcome of its body is a returned     *)
(* response or an Error thrown to the catch clause; validated tells        *)
(* whether the type guard of the tool accepted the arguments, raised       *)
(* whether an Error reached a catch clause of the handler.                 *)
(***************************************************************************)
TextContent(text) == <<[type |-> "text", text |-> text]>>

HReturn(text, isError, calls, rem, cal, result, raised) ==
  [thrown |-> FALSE,
   response |-> [t |-> "result", content |-> TextContent(text), isError |-> isError],
   msg |-> <<>>, calls |-> calls, rem |-> rem, cal |-> cal, result |-> result,
   validated |-> TRUE, raised |-> raised]

HThrow(msg, calls, rem, cal, validated) ==
  [thrown |-> TRUE,
   response |-> [t |-> "uncaught", content |-> <<>>, isError |-> FALSE],
   msg |-> msg, calls |-> calls, rem |-> rem, cal |-> cal, result |-> <<>>,
   validated |-> validated, raised |-> TRUE]

CaseContacts(args, env, rem, cal) ==
  IF ~isContactsArgs(args)
  THEN HThrow(<<"Invalid arguments for ", "contacts", " tool">>, <<>>, rem, cal, FALSE)
  ELSE LET o == IF Truthy(args.o["name"])
                THEN ExternalUtil("contacts", "findNumber", env.run, env.some, 1)
                ELSE ExternalUtil("contacts", "getAllNumbers", env.run, env.some, 1)
       IN IF o.thrown
          THEN HReturn(<<"Error accessing contacts: ">> \o o.msg, TRUE,
                       o.calls, rem, cal, <<>>, TRUE)
          ELSE HReturn(IF Len(o.val) > 0 THEN <<"Found contacts">>
                       ELSE <<"No contacts found">>,
                       FALSE, o.calls, rem, cal, o.val, FALSE)

CaseNotes(args, env, rem, cal) ==
  IF ~isNotesArgs(args)
  THEN HThrow(<<"Invalid arguments for ", "notes", " tool">>, <<>>, rem, cal, FALSE)
  ELSE LET o == IF Truthy(args.o["searchText"])
                THEN ExternalUtil("notes", "findNote", env.run, env.some, 1)
                ELSE ExternalUtil("notes", "getAllNotes", env.run, env.some, 1)
       IN IF o.thrown
          THEN HThrow(o.msg, o.calls, rem, cal, TRUE)
          ELSE HReturn(IF Len(o.val) > 0 THEN <<"Found notes">>
                       ELSE <<"No notes found">>,
                       FALSE, o.calls, rem, cal, o.val, FALSE)

MessagesOperation(args, env, rem, cal) ==
  LET a == args.o
      op == a["operation"].s
  IN CASE op = <<"send">> ->
            IF ~Truthy(a["phoneNumber"]) \/ ~Truthy(a["message"])
            THEN HThrow(<<"Phone number", " and ", "message",
                          " are required for send operation">>, <<>>, rem, cal, FALSE)
            ELSE LET o == ExternalUtil("messages", "sendMessage", env.run, FALSE, 1)
                 IN IF o.thrown THEN HThrow(o.msg, o.calls, rem, cal, TRUE)
                    ELSE HReturn(<<"Message sent to ">> \o a["phoneNumber"].s, FALSE,
                                 o.calls, rem, cal, <<>>, FALSE)
       [] op = <<"read">> ->
            IF ~Truthy(a["phoneNumber"])
            THEN HThrow(<<"Phone number", " is required for read operation">>,
                        <<>>, rem, cal, FALSE)
            ELSE LET o == ExternalUtil("messages", "readMessages", env.run, env.some, 1)
                 IN IF o.thrown THEN HThrow(o.msg, o.calls, rem, cal, TRUE)
                    ELSE HReturn(IF Len(o.val) > 0 THEN <<"Messages">>
                                 ELSE <<"No messages found">>,
                                 FALSE, o.calls, rem, cal, o.val, FALSE)
       [] op = <<"schedule">> ->
            IF \/ ~Truthy(a["phoneNumber"]) \/ ~Truthy(a["message"])
               \/ ~Truthy(a["scheduledTime"])
            THEN HThrow(<<"Phone number", ", ", "message", ", and ", "scheduled time",
                          " are required for schedule operation">>,
                        <<>>, rem, cal, FALSE)
            ELSE LET o == ExternalUtil("messages", "scheduleMessage", env.run, FALSE, 1)
                 IN IF o.thrown THEN HThrow(o.msg, o.calls, rem, cal, TRUE)
                    ELSE HReturn(<<"Message scheduled to be sent to ">>
                                   \o a["phoneNumber"].s, FALSE,
                                 o.calls, rem, cal, <<>>, FALSE)
       [] op = <<"unread">> ->
            LET o == ExternalUtil("messages", "getUnreadMessages", env.run, env.some, 1)
            IN IF o.thrown THEN HThrow(o.msg, o.calls, rem, cal, TRUE)
               ELSE IF Len(o.val) = 0
                    THEN HReturn(<<"No unread messages found">>, FALSE,
                                 o.calls, rem, cal, o.val, FALSE)
                    ELSE LET n == ExternalUtil("contacts", "findContactByPhone",
                                               env.run2, TRUE, 2)
                         IN IF n.thrown
                            THEN HThrow(n.msg, o.calls \o n.calls, rem, cal, TRUE)
                            ELSE HReturn(<<"Found unread message(s)">>, FALSE,
                                         o.calls \o n.calls, rem, cal, o.val, FALSE)
       [] OTHER -> HThrow(<<"Unknown operation: ">> \o op, <<>>, rem, cal, FALSE)

CaseMessages(args, env, rem, cal) ==
  IF ~isMessagesArgs(args)
  THEN HThrow(<<"Invalid arguments for ", "messages", " tool">>, <<>>, rem, cal, FALSE)
  ELSE MessagesOperation(args, env, rem, cal)

\* a utility outcome that threw becomes a throw of the handler body
Rethrow(o, rem, cal) == HThrow(o.msg, o.calls, rem, cal, TRUE)

RemindersOperation(args, env, rem, cal) ==
  LET a == args.o
      op == a["operation"].s
  IN CASE op = <<"list">> ->
            LET o == getAllReminders(rem, env.p1, env.run, env.f, 1)
            IN IF o.thrown THEN Rethrow(o, rem, cal)
               ELSE HReturn(IF Len(o.val) > 0 THEN <<"Found reminders">>
                            ELSE <<"No reminders found">>,
                            FALSE, o.calls, o.st, cal, o.val, FALSE)
       [] op = <<"find">> ->
            IF ~Truthy(a["searchText"])
            THEN HThrow(<<"Search text", " is required for find operation">>,
                        <<>>, rem, cal, FALSE)
            ELSE LET o == findReminders(rem, a["searchText"].s, env)
                 IN IF o.thrown THEN Rethrow(o, rem, cal)
                    ELSE HReturn(IF Len(o.val) > 0 THEN <<"Found matching reminders">>
                                 ELSE <<"No reminders found matching ">> \o a["searchText"].s,
                                 FALSE, o.calls, o.st, cal, o.val, FALSE)
       [] op = <<"create">> ->
            IF ~Truthy(a["title"])
            THEN HThrow(<<"Title", " is required for create operation">>,
                        <<>>, rem, cal, FALSE)
            ELSE LET dueDate == IF Truthy(a["dueDate"]) THEN NewDate(a["dueDate"].s)
                                ELSE Undefined
                     notes == IF Truthy(a["notes"]) THEN a["notes"].s ELSE <<>>
                     o == createReminder(rem, a["title"].s, notes, dueDate, env)
                 IN IF o.thrown THEN Rethrow(o, rem, cal)
                    ELSE IF IsNull(o.val)
                    THEN HThrow(<<"Failed to create reminder">>, o.calls, rem, cal, TRUE)
                    ELSE HReturn(<<"Reminder created: ">> \o o.val.title, FALSE,
                                 o.calls, o.st, cal, o.val, FALSE)
       [] op = <<"complete">> ->
            IF ~Truthy(a["id"])
            THEN HThrow(<<"Reminder ID", " is required for complete operation">>,
                        <<>>, rem, cal, FALSE)
            ELSE LET o == completeReminder(rem, a["id"].s, env)
                 IN IF o.thrown THEN Rethrow(o, rem, cal)
                    ELSE HReturn(IF o.val THEN <<"Reminder marked as completed">>
                                 ELSE <<"Failed to complete reminder. ID ">>
                                        \o a["id"].s \o <<" not found.">>,
                                 ~o.val, o.calls, o.st, cal, o.val, FALSE)
       [] OTHER -> HThrow(<<"Unknown operation: ">> \o op, <<>>, rem, cal, FALSE)

\* CaseReminders that lists before it has checked the arguments
CaseRemindersListsUnchecked(args, env, rem, cal) ==
  IF IsObject(args) /\ args.o["operation"] = Str(<<"list">>)
  THEN RemindersOperation(args, env, rem, cal)
  ELSE IF ~isRemindersArgs(args)
       THEN HThrow(<<"Invalid arguments for ", "reminders", " tool">>, <<>>, rem, cal, FALSE)
       ELSE RemindersOperation(args, env, rem, cal)

CaseReminders(args, env, rem, cal) ==
  IF ~isRemindersArgs(args)
  THEN HThrow(<<"Invalid arguments for ", "reminders", " tool">>, <<>>, rem, cal, FALSE)
  ELSE RemindersOperation(args, env, rem, cal)

CalendarOperation(args, env, rem, cal) ==
  LET a == args.o
      op == a["operation"].s
  IN CASE op = <<"list">> ->
            LET o == getAllEvents(cal, env.p1, env.run, env.f, 1)
            IN IF o.thrown THEN Rethrow(o, rem, cal)
               ELSE HReturn(IF Len(o.val) > 0 THEN <<"Found calendar events">>
                            ELSE <<"No calendar events found">>,
                            FALSE, o.calls, rem, o.st, o.val, FALSE)
       [] op = <<"find">> ->
            IF ~Truthy(a["searchText"])
            THEN HThrow(<<"Search text", " is required for find operation">>,
                        <<>>, rem, cal, FALSE)
            ELSE LET startDate == IF Truthy(a["startDate"]) THEN NewDate(a["startDate"].s)
                                  ELSE Undefined
                     endDate == IF Truthy(a["endDate"]) THEN NewDate(a["endDate"].s)
                                ELSE Undefined
                     o == findEvents(cal, a["searchText"].s, startDate, endDate, env)
                 IN IF o.thrown THEN Rethrow(o, rem, cal)
                    ELSE HReturn(IF Len(o.val) > 0 THEN <<"Found matching events">>
                                 ELSE <<"No calendar events found matching ">>
                                        \o a["searchText"].s,
                                 FALSE, o.calls, rem, o.st, o.val, FALSE)
       [] op = <<"create">> ->
            IF ~Truthy(a["title"]) \/ ~Truthy(a["startDate"]) \/ ~Truthy(a["duration"])
            THEN HThrow(<<"Title", ", ", "start date", ", and ", "duration",
                          " are required for create operation">>, <<>>, rem, cal, FALSE)
            ELSE LET startDate == NewDate(a["startDate"].s)
                     description == IF Truthy(a["description"]) THEN a["description"].s
                                    ELSE <<>>
                     location == IF Truthy(a["location"]) THEN a["location"].s ELSE <<>>
                     o == createEvent(cal, a["title"].s, startDate, a["duration"].n,
                                      description, location, env)
                 IN IF o.thrown THEN Rethrow(o, rem, cal)
                    ELSE IF IsNull(o.val)
                    THEN HThrow(<<"Failed to create calendar event">>, o.calls, rem, cal, TRUE)
                    ELSE HReturn(<<"Calendar event created: ">> \o o.val.title, FALSE,
                                 o.calls, rem, o.st, o.val, FALSE)
       [] OTHER -> HThrow(<<"Unknown operation: ">> \o op, <<>>, rem, cal, FALSE)

CaseCalendar(args, env, rem, cal) ==
  IF ~isCalendarArgs(args)
  THEN HThrow(<<"Invalid arguments for ", "calendar", " tool">>, <<>>, rem, cal, FALSE)
  ELSE CalendarOperation(args, env, rem, cal)

\* DefaultCase with a response that is not flagged as an error
DefaultCaseNotFlagged(name, rem, cal) ==
  [thrown |-> FALSE,
   response |-> [t |-> "result",
                 content |-> TextContent(<<"Unknown tool: ", name>>),
                 isError |-> FALSE],
   msg |-> <<>>, calls |-> <<>>, rem |-> rem, cal |-> cal, result |-> <<>>,
   validated |-> FALSE, raised |-> FALSE]

\* default: of the switch over the tool name
DefaultCase(name, rem, cal) ==
  [thrown |-> FALSE,
   response |-> [t |-> "result",
                 content |-> TextContent(<<"Unknown tool: ", name>>),
                 isError |-> TRUE],
   msg |-> <<>>, calls |-> <<>>, rem |-> rem, cal |-> cal, result |-> <<>>,
   validated |-> FALSE, raised |-> FALSE]

\* the body of the try block
HandlerBody(req, env, rem, cal) ==
  IF ~Truthy(req.args)
  THEN HThrow(<<"No arguments provided">>, <<>>, rem, cal, FALSE)
  ELSE CASE req.name = "contacts" -> CaseContacts(req.args, env, rem, cal)
         [] req.name = "notes" -> CaseNotes(req.args, env, rem, cal)
         [] req.name = "messages" -> CaseMessages(req.args, env, rem, cal)
         [] req.name = "reminders" -> CaseReminders(req.args, env, rem, cal)
         [] req.name = "calendar" -> CaseCalendar(req.args, env, rem, cal)
         [] OTHER -> DefaultCase(req.name, rem, cal)

\* CatchClause that lets the Error through
CatchClauseRethrows(b) == b

\* the catch clause of the handler
CatchClause(b) ==
  IF b.thrown
  THEN [b EXCEPT !.thrown = FALSE,
                 !.response = [t |-> "result",
                               content |-> TextContent(<<"Error: ">> \o b.msg),
                               isError |-> TRUE]]
  ELSE b

CallToolHandler(req, env, rem, cal) == CatchClause(HandlerBody(req, env, rem, cal))

(***************************************************************************)
(* The server as a state machine: a request arrives, the handler runs to   *)
(* completion against the backing stores, the response is sent.            *)
(***************************************************************************)
VARIABLES
  remLists,     \* the reminder lists of the Reminders app, default list first
  calendars,    \* the calendars of the Calendar app, default calendar first
  pc,           \* "idle", "pending" (request received), "responded"
  request,      \* the request being handled: [name, args]
  response,     \* what the handler returned for it
  calls,        \* the bridge calls the handler made for it, in order
  result,       \* the value the utility returned to the handler
  validated,    \* the type guard of the tool accepted the arguments
  raised,       \* an Error reached a catch clause of the handler
  created,      \* items created so far
  previous      \* the preceding handler call, when it is remembered

vars == <<remLists, calendars, pc, request, response, calls, result,
          validated, raised, created, previous>>

NoRequest == [name |-> "", args |-> Undefined]
NoResponse == [t |-> "none", content |-> <<>>, isError |-> FALSE]
NoPrevious == [request |-> NoRequest, result |-> <<>>]

\* texts of the model
Ta == <<"a">>
TAb == <<"A", "b">>
Tb == <<"b">>
Tab == <<"a", "b">>

NoArgs == [f \in Fields |-> Undefined]

\* the arguments objects with operation opv whose properties flds range over pool
ArgsFamily(opv, flds, pool) ==
  { Obj([f \in Fields |-> IF f = "operation" THEN opv
                          ELSE IF f \in flds THEN g[f] ELSE Undefined]) :
      g \in { h \in [flds -> UNION { pool[f] : f \in flds }] :
                \A f \in flds : h[f] \in pool[f] } }

Op(w) == Str(<<w>>)

(***************************************************************************)
(* Requests over the stores: well-formed list / find / create / complete   *)
(* requests whose texts, ids and dates hit and miss the stored items.      *)
(***************************************************************************)
SearchTexts == {Str(Ta), Str(Tb), Str(Tab), Str(<<"c">>)}

StorePool ==
  [f \in Fields |->
     CASE f = "searchText" -> SearchTexts
       [] f = "title" -> {Str(TAb)}
       [] f = "id" -> {Str(IdOf(1)), Str(IdOf(2)), Str(IdOf(3))}
       [] f = "startDate" -> {Undefined, Str(toISOString(DateOf(2)))}
       [] f = "endDate" -> {Undefined, Str(toISOString(DateOf(3)))}
       [] OTHER -> {Undefined}]

\* a create request with only the required properties
PlainCreatePool ==
  [StorePool EXCEPT !["startDate"] = {Str(toISOString(DateOf(2)))},
                    !["duration"] = {Num(1), Num(0 - 1)}]

\* a create request with the optional properties too
FullCreatePool ==
  [StorePool EXCEPT !["notes"] = {Str(Tb)},
                    !["dueDate"] = {Str(toISOString(DateOf(1)))},
                    !["startDate"] = {Str(toISOString(DateOf(2)))},
                    !["duration"] = {Num(2)},
                    !["description"] = {Str(Tb)},
                    !["location"] = {Str(Ta)}]

StoreRequests ==
  { [name |-> "reminders", args |-> a] :
      a \in ArgsFamily(Op("list"), {}, StorePool)
            \cup ArgsFamily(Op("find"), {"searchText"}, StorePool)
            \cup ArgsFamily(Op("create"), {"title"}, PlainCreatePool)
            \cup ArgsFamily(Op("create"), {"title", "notes", "dueDate"}, FullCreatePool)
            \cup ArgsFamily(Op("complete"), {"id"}, StorePool) }
  \cup
  { [name |-> "calendar", args |-> a] :
      a \in ArgsFamily(Op("list"), {}, StorePool)
            \cup ArgsFamily(Op("find"), {"searchText", "startDate", "endDate"}, StorePool)
            \cup ArgsFamily(Op("create"), {"title", "startDate", "duration"},
                            PlainCreatePool)
            \cup ArgsFamily(Op("create"),
                            {"title", "startDate", "duration", "description", "location"},
                            FullCreatePool) }

(***************************************************************************)
(* Requests of every shape: any tool name, no arguments object, any        *)
(* operation value, every required property absent, empty, of the wrong    *)
(* type or well-typed.                                                     *)
(***************************************************************************)
ShapePool ==
  [f \in Fields |->
     CASE f \in {"startDate", "endDate", "dueDate", "scheduledTime"} ->
            {Undefined, Str(<<>>), Str(toISOString(DateOf(2))), Str(Ta), Num(5)}
       [] f = "duration" -> {Undefined, Num(0), Num(1), Num(0 - 1), Str(Ta)}
       [] f = "limit" -> {Undefined, Num(5), Str(Ta)}
       [] f = "id" -> {Undefined, Str(<<>>), Str(IdOf(1)), Num(5)}
       [] f \in {"description", "location", "notes"} -> {Undefined, Str(Tb)}
       [] OTHER -> {Undefined, Str(<<>>), Str(Ta), Num(5)}]

OddOperations == {Undefined, Op("bogus"), Num(1), Str(<<>>)}

ShapeRequests ==
  { [name |-> n, args |-> Undefined] :
      n \in {"contacts", "notes", "messages", "reminders", "calendar", "weather"} }
  \cup { [name |-> "weather", args |-> Obj(NoArgs)] }
  \cup { [name |-> n, args |-> a] :
           n \in {"messages", "reminders", "calendar"},
           a \in UNION { ArgsFamily(o, {}, ShapePool) : o \in OddOperations } }
  \cup { [name |-> "contacts", args |-> a] :
           a \in ArgsFamily(Undefined, {"name"}, ShapePool) }
  \cup { [name |-> "notes", args |-> a] :
           a \in ArgsFamily(Undefined, {"searchText"}, ShapePool) }
  \cup { [name |-> "messages", args |-> a] :
           a \in ArgsFamily(Op("send"), {"phoneNumber", "message"}, ShapePool)
                 \cup ArgsFamily(Op("read"), {"phoneNumber", "limit"}, ShapePool)
                 \cup ArgsFamily(Op("schedule"),
                                 {"phoneNumber", "message", "scheduledTime"}, ShapePool)
                 \cup ArgsFamily(Op("unread"), {"limit"}, ShapePool) }
  \cup { [name |-> "reminders", args |-> a] :
           a \in ArgsFamily(Op("list"), {"title"}, ShapePool)
                 \cup ArgsFamily(Op("find"), {"searchText"}, ShapePool)
                 \cup ArgsFamily(Op("create"), {"title", "notes", "dueDate"}, ShapePool)
                 \cup ArgsFamily(Op("complete"), {"id"}, ShapePool) }
  \cup { [name |-> "calendar", args |-> a] :
           a \in ArgsFamily(Op("list"), {"title"}, ShapePool)
                 \cup ArgsFamily(Op("find"), {"searchText", "startDate", "endDate"},
                                 ShapePool)
                 \cup ArgsFamily(Op("create"),
                                 {"title", "startDate", "duration", "description"},
                                 ShapePool) }

(***************************************************************************)
(* What the outside world does during one handler call.  Only the parts    *)
(* the tool can observe vary; a part that cannot be reached (the second    *)
(* probe after a failed first one, ...) keeps its default.                 *)
(***************************************************************************)
SourcesOf(name) ==
  CASE name = "reminders" -> 1..NumLists
    [] name = "calendar" -> 1..NumCalendars
    [] OTHER -> {}

OperationOf(req) ==
  IF req.args.t = "object" THEN req.args.o["operation"] ELSE Undefined

Environments(req) ==
  { e \in [p1 : BOOLEAN, p2 : BOOLEAN, run : BOOLEAN, run2 : BOOLEAN,
           f : SUBSET SourcesOf(req.name), some : BOOLEAN] :
      /\ req.name \in {"reminders", "calendar"} => e.some /\ e.run2
      /\ req.name \notin {"reminders", "calendar"} => e.p1 /\ e.p2
      /\ OperationOf(req) # Op("find") => e.p2
      /\ OperationOf(req) # Op("unread") => e.run2
      /\ ~e.p1 => e.run /\ e.p2
      /\ ~e.run => e.f = {} /\ e.p2 /\ e.run2 }

\* initial contents of the backing stores
InitReminders ==
  { [id |-> IdOf(1), name |-> Ta, body |-> <<>>, dueDate |-> Null, completed |-> FALSE],
    [id |-> IdOf(2), name |-> TAb, body |-> Tb, dueDate |-> Null, completed |-> FALSE] }

InitEvents ==
  { [id |-> IdOf(1), summary |-> Ta, description |-> <<>>, location |-> <<>>,
     startDate |-> 1, endDate |-> 2],
    [id |-> IdOf(2), summary |-> TAb, description |-> <<>>, location |-> Tb,
     startDate |-> 2, endDate |-> 3] }

\* the sequences without repetition of at most n elements of S
RECURSIVE SeqsUpTo(_, _)
SeqsUpTo(S, n) ==
  IF n = 0 THEN {<<>>}
  ELSE LET shorter == SeqsUpTo(S, n - 1)
       IN shorter \cup UNION { { Append(q, x) :
                                     x \in { y \in S : \A i \in 1..Len(q) : q[i] # y } } :
                                q \in shorter }

InitLists == [1..NumLists -> SeqsUpTo(InitReminders, MaxInitItems)]
InitCalendars == [1..NumCalendars -> SeqsUpTo(InitEvents, MaxInitItems)]

FixedLists == [l \in 1..NumLists |-> <<CHOOSE r \in InitReminders : r.id = IdOf((l % 2) + 1)>>]
FixedCalendars ==
  [c \in 1..NumCalendars |-> <<CHOOSE e \in InitEvents : e.id = IdOf((c % 2) + 1)>>]

Idle ==
  /\ pc = "idle"
  /\ request = NoRequest
  /\ response = NoResponse
  /\ calls = <<>>
  /\ result = <<>>
  /\ validated = FALSE
  /\ raised = FALSE

Init ==
  /\ \/ remLists \in InitLists /\ calendars = FixedCalendars
     \/ remLists = FixedLists /\ calendars \in InitCalendars
  /\ created = 0
  /\ previous = NoPrevious
  /\ Idle

InitShapes ==
  /\ remLists = FixedLists
  /\ calendars = FixedCalendars
  /\ created = 0
  /\ previous = NoPrevious
  /\ Idle

IsCreate(req) ==
  /\ req.args.t = "object"
  /\ req.args.o["operation"] = Op("create")

\* a request arrives
Receive(requests) ==
  /\ pc = "idle"
  /\ \E req \in requests :
       /\ IsCreate(req) => created < MaxCreated
       /\ request' = req
  /\ pc' = "pending"
  /\ UNCHANGED <<remLists, calendars, response, calls, result, validated, raised, created,
                 previous>>

\* the CallTool handler runs
CallTool ==
  /\ pc = "pending"
  /\ \E env \in Environments(request) :
     \E h \in {CallToolHandler(request, env, remLists, calendars)} :
       /\ response' = h.response
       /\ calls' = h.calls
       /\ result' = h.result
       /\ validated' = h.validated
       /\ raised' = h.raised
       /\ remLists' = h.rem
       /\ calendars' = h.cal
       /\ created' = IF IsCreate(request) /\ (h.rem # remLists \/ h.cal # calendars)
                     THEN created + 1 ELSE created
  /\ pc' = "responded"
  /\ UNCHANGED <<request, previous>>

\* the response is sent; p is what is remembered of the call
Reply(p) ==
  /\ pc = "responded"
  /\ pc' = "idle"
  /\ request' = NoRequest
  /\ response' = NoResponse
  /\ calls' = <<>>
  /\ result' = <<>>
  /\ validated' = FALSE
  /\ raised' = FALSE
  /\ previous' = p
  /\ UNCHANGED <<remLists, calendars, created>>

Respond == Reply(NoPrevious)

\* the call that ended was a create or a complete that succeeded
Remembered ==
  /\ ~response.isError
  /\ OperationOf(request) \in {Op("create"), Op("complete")}

\* the response is sent and a successful create or complete is remembered
RespondRemembering ==
  Reply(IF Remembered THEN [request |-> request, result |-> result] ELSE NoPrevious)

ReceiveStoreRequest == Receive(StoreRequests)
ReceiveShapeRequest == Receive(ShapeRequests)

Next == ReceiveStoreRequest \/ CallTool \/ Respond
Spec == Init /\ [][Next]_vars

NextShapes == ReceiveShapeRequest \/ CallTool \/ Respond
SpecShapes == InitShapes /\ [][NextShapes]_vars

(***************************************************************************)
(* Text-only finds over stores of one item each, with titles and search    *)
(* texts in both cases and with the Greek sigma.                           *)
(***************************************************************************)
TAS == <<"A", "S">>
TS == <<"S">>

TextTitles == {TAb, TAS, <<"a", "z">>}

TextSearches ==
  {Str(Ta), Str(<<"A">>), Str(<<"B">>), Str(TS), Str(<<"s">>), Str(<<"z">>)}

TextReminders ==
  { [id |-> IdOf(1), name |-> t, body |-> <<>>, dueDate |-> Null, completed |-> FALSE] :
      t \in TextTitles }

TextEvents ==
  { [id |-> IdOf(1), summary |-> t, description |-> <<>>, location |-> <<>>,
     startDate |-> 1, endDate |-> 2] : t \in TextTitles }

TextPool == [StorePool EXCEPT !["searchText"] = TextSearches]

TextRequests ==
  { [name |-> n, args |-> a] :
      n \in {"reminders", "calendar"},
      a \in ArgsFamily(Op("find"), {"searchText"}, TextPool) }

InitText ==
  /\ \/ /\ remLists \in [1..NumLists -> { <<r>> : r \in TextReminders }]
        /\ calendars = FixedCalendars
     \/ /\ remLists = FixedLists
        /\ calendars \in [1..NumCalendars -> { <<e>> : e \in TextEvents }]
  /\ created = 0
  /\ previous = NoPrevious
  /\ Idle

ReceiveTextRequest == Receive(TextRequests)

NextText == ReceiveTextRequest \/ CallTool \/ Respond
SpecText == InitText /\ [][NextText]_vars

(***************************************************************************)
(* Pairs of requests: the server as above, with a successful create or     *)
(* complete remembered until the call that follows it has been answered.   *)
(***************************************************************************)
PairRequests ==
  { req \in StoreRequests :
      /\ OperationOf(req) \in {Op("create"), Op("find"), Op("complete")}
      /\ req.args.o["startDate"] = Undefined \/ IsCreate(req)
      /\ req.args.o["endDate"] = Undefined }

ReceivePairRequest == Receive(PairRequests)

NextPairs == ReceivePairRequest \/ CallTool \/ RespondRemembering
SpecPairs == Init /\ [][NextPairs]_vars

(***************************************************************************)
(* Properties of the request handler.                                      *)
(***************************************************************************)
Responded == pc = "responded"

ResponseText == response.content[1].text

KnownTools == {"contacts", "notes", "messages", "reminders", "calendar"}

AllowedOperations(name) ==
  CASE name = "messages" -> MessagesOperations
    [] name = "reminders" -> RemindersOperations
    [] name = "calendar" -> CalendarOperations
    [] OTHER -> {}

\* C1: whatever the tool name, the arguments and the failures below it, the
\* handler returns a result with a content list and an isError flag and never
\* lets an Error through; isError is true whenever an Error reached it.
C1_HandlerNeverRaises ==
  Responded =>
    /\ response.t = "result"
    /\ Len(response.content) >= 1
    /\ \A i \in 1..Len(response.content) : response.content[i].type = "text"
    /\ response.isError \in BOOLEAN
    /\ raised => response.isError

\* a bridge call failed below the handler and the response reports the error
C1_Witness ==
  /\ Responded
  /\ raised
  /\ response.isError
  /\ \E i \in 1..Len(calls) : ~calls[i].ok

\* the request names no known tool
UnknownTool == request.name \notin KnownTools

\* the request names a tool with operations and a string that is none of them
UnknownOperation ==
  /\ request.name \in {"messages", "reminders", "calendar"}
  /\ request.args.t = "object"
  /\ request.args.o["operation"].t = "string"
  /\ request.args.o["operation"].s \notin AllowedOperations(request.name)

\* C2: an unknown tool name, or an unknown operation string of a known tool,
\* gets a result with isError = true and makes no bridge call.
C2_UnknownToolOrOperation ==
  Responded /\ (UnknownTool \/ UnknownOperation) =>
    /\ response.t = "result"
    /\ response.isError
    /\ calls = <<>>

\* an unknown tool was called with an arguments object
C2_Witness ==
  /\ Responded
  /\ UnknownTool
  /\ request.args.t = "object"
  /\ response.isError

(***************************************************************************)
(* The required-field table of the tools.                                  *)
(***************************************************************************)
RequiredFields(name, op) ==
  CASE name = "messages" /\ op = <<"send">> -> {"phoneNumber", "message"}
    [] name = "messages" /\ op = <<"read">> -> {"phoneNumber"}
    [] name = "messages" /\ op = <<"schedule">> ->
         {"phoneNumber", "message", "scheduledTime"}
    [] name = "reminders" /\ op = <<"find">> -> {"searchText"}
    [] name = "reminders" /\ op = <<"create">> -> {"title"}
    [] name = "reminders" /\ op = <<"complete">> -> {"id"}
    [] name = "calendar" /\ op = <<"find">> -> {"searchText"}
    [] name = "calendar" /\ op = <<"create">> -> {"title", "startDate", "duration"}
    [] OTHER -> {}

ExpectedType(f) == IF f \in {"duration", "limit"} THEN "number" ELSE "string"

\* v is a value of the primitive type of property f (a duration is not negative)
WellTyped(v, f) ==
  /\ TypeOf(v) = ExpectedType(f)
  /\ f = "duration" => v.n >= 0

\* the request is for an operation of the table
TableOperation ==
  /\ request.name \in {"messages", "reminders", "calendar"}
  /\ request.args.t = "object"
  /\ request.args.o["operation"].t = "string"
  /\ request.args.o["operation"].s \in AllowedOperations(request.name)

RequestRequired == RequiredFields(request.name, request.args.o["operation"].s)

\* the request lacks the required property f and nothing else is wrong with it
OmitsOnly(f) ==
  /\ TableOperation
  /\ f \in RequestRequired
  /\ request.args.o[f] = Undefined
  /\ \A g \in Fields \ {f, "operation"} :
       \/ g \notin RequestRequired /\ request.args.o[g] = Undefined
       \/ WellTyped(request.args.o[g], g) /\ Truthy(request.args.o[g])

\* the words by which a message of the handler names a property
FieldLabels(f) ==
  {f} \cup
  CASE f = "searchText" -> {"Search text"}
    [] f = "title" -> {"Title"}
    [] f = "id" -> {"Reminder ID"}
    [] f = "phoneNumber" -> {"Phone number"}
    [] f = "scheduledTime" -> {"scheduled time"}
    [] f = "startDate" -> {"start date"}
    [] OTHER -> {}

NamesField(text, f) == \E i \in 1..Len(text) : text[i] \in FieldLabels(f)

\* C3: a request for an operation of the table that omits one required
\* property gets an error result whose message names that property.
C3_OmittedFieldNamed ==
  Responded =>
    \A f \in Fields :
      OmitsOnly(f) => response.isError /\ NamesField(ResponseText, f)

\* every required property has a value of its type, every other property is
\* absent or has a value of its type
SuppliesRequired ==
  /\ \/ TableOperation
     \/ request.name \in {"contacts", "notes"} /\ request.args.t = "object"
  /\ \A g \in Fields \ {"operation"} :
       \/ WellTyped(request.args.o[g], g)
       \/ /\ request.args.o[g] = Undefined
          /\ request.name \in {"messages", "reminders", "calendar"}
               => g \notin RequestRequired

ValidationMessages ==
  { <<"Error: ", "Invalid arguments for ", n, " tool">> : n \in KnownTools }

\* C4: a request that supplies every required property with a value of its
\* type is accepted by the type guard and by the re-check of the handler.
C4_WellTypedAccepted ==
  Responded /\ SuppliesRequired =>
    /\ validated
    /\ ResponseText \notin ValidationMessages

(***************************************************************************)
(* Validation, access and aggregation.                                     *)
(***************************************************************************)
SideEffecting(c) == c.call \in {"sendMessage", "scheduleMessage", "insert", "setField"}

\* the type guard of the named tool accepts the arguments of the request
GuardAccepts(req) ==
  IF ~Truthy(req.args) THEN FALSE
  ELSE CASE req.name = "contacts" -> isContactsArgs(req.args)
         [] req.name = "notes" -> isNotesArgs(req.args)
         [] req.name = "messages" -> isMessagesArgs(req.args)
         [] req.name = "reminders" -> isRemindersArgs(req.args)
         [] req.name = "calendar" -> isCalendarArgs(req.args)
         [] OTHER -> FALSE

\* C5: in a handler call, a bridge call that changes a backing store is made
\* only after the arguments passed validation; a request that fails
\* validation makes no bridge call and leaves the backing stores as they were.
C5_ValidationBeforeSideEffects ==
  [][ pc = "pending" /\ pc' = "responded" =>
        /\ (\E i \in 1..Len(calls') : SideEffecting(calls'[i]))
             => validated' /\ GuardAccepts(request)
        /\ (remLists' # remLists \/ calendars' # calendars)
             => validated' /\ GuardAccepts(request)
        /\ ~GuardAccepts(request)
             => /\ calls' = <<>>
                /\ remLists' = remLists
                /\ calendars' = calendars
                /\ ~validated'
                /\ response'.isError ]_vars

\* a validated create request has inserted an item
C5_Witness ==
  /\ Responded
  /\ validated
  /\ \E i \in 1..Len(calls) : calls[i].call = "insert" /\ calls[i].ok

OperationIs(name, ops) ==
  /\ request.name = name
  /\ request.args.t = "object"
  /\ request.args.o["operation"].t = "string"
  /\ request.args.o["operation"].s \in ops

AccessPath(name) ==
  IF name = "calendar" THEN CalendarAccessPath ELSE RemindersAccessPath

\* C6: when an access probe of the reminders or calendar domain fails, the
\* operation returns isError = true with a message that names the privacy
\* settings path of the domain, and the failed probe is the last bridge call
\* of the handler call.
C6_AccessDenied ==
  Responded /\ request.name \in {"reminders", "calendar"} =>
    \A i \in 1..Len(calls) :
      calls[i].call = "probe" /\ ~calls[i].ok =>
        /\ response.isError
        /\ \E j \in 1..Len(ResponseText) : ResponseText[j] = AccessPath(request.name)
        /\ calls[i].domain = request.name
        /\ i = Len(calls)

\* the probe of the fallback enumeration of a find failed after a strict search
C6_Witness ==
  /\ Responded
  /\ OperationIs("calendar", {<<"find">>})
  /\ Len(calls) > 1
  /\ calls[Len(calls)].call = "probe"
  /\ ~calls[Len(calls)].ok
  /\ response.isError

\* the sources that raised when a script read or searched them
RaisingSources == { calls[i].src : i \in { j \in 1..Len(calls) : calls[j].src # 0 /\ ~calls[j].ok } }

\* nothing but the reading of single sources failed
OnlySourcesFailed == \A i \in 1..Len(calls) : ~calls[i].ok => calls[i].src # 0

\* the concatenation, in source order, of what map gives for the sources in ok
RECURSIVE ConcatSources(_, _, _, _)
ConcatSources(stores, ok, map(_, _), c) ==
  IF c > Len(stores) THEN <<>>
  ELSE (IF c \in ok THEN [i \in 1..Len(stores[c]) |-> map(stores[c][i], c)] ELSE <<>>)
       \o ConcatSources(stores, ok, map, c + 1)

ReadableEvents(ok) == ConcatSources(calendars, ok, CalendarEventOf, 1)

BothDatesGiven ==
  Truthy(request.args.o["startDate"]) /\ Truthy(request.args.o["endDate"])
SomeDateGiven ==
  Truthy(request.args.o["startDate"]) \/ Truthy(request.args.o["endDate"])

\* the event contains the text in its title, description or location
EventContains(event, text) ==
  \/ includes(event.title, text)
  \/ includes(event.description, text)
  \/ includes(event.location, text)

\* the event starts and ends within the dates of the request
EventWithinDates(event) ==
  /\ NewDate(event.startDate).ms >= NewDate(request.args.o["startDate"].s).ms
  /\ NewDate(event.endDate).ms <= NewDate(request.args.o["endDate"].s).ms

\* what the strict search of a calendar find selects from the calendars in ok
StrictEvents(ok) ==
  LET text == request.args.o["searchText"].s
  IN SelectSeq(ReadableEvents(ok),
               LAMBDA event : /\ EventContains(event, text)
                              /\ BothDatesGiven => EventWithinDates(event))

\* what the fallback of a calendar find selects from the calendars in ok
BroadEvents(ok) ==
  LET text == toLowerCase(request.args.o["searchText"].s)
  IN SelectSeq(ReadableEvents(ok),
               LAMBDA event :
                 EventContains([title |-> toLowerCase(event.title),
                                description |-> toLowerCase(event.description),
                                location |-> toLowerCase(event.location)], text))

\* what a calendar list or find returns when the calendars in ok can be read
ExpectedEvents(ok) ==
  IF OperationIs("calendar", {<<"list">>}) THEN ReadableEvents(ok)
  ELSE IF StrictEvents(ok) = <<>> /\ ~SomeDateGiven THEN BroadEvents(ok)
  ELSE StrictEvents(ok)

\* C7: a calendar list or find over calendars of which exactly one raises
\* does not fail; it returns the (filtered) events of the other calendars,
\* concatenated in calendar order.
C7_OneCalendarRaises ==
  /\ Responded
  /\ OperationIs("calendar", {<<"list">>, <<"find">>})
  /\ validated
  /\ OnlySourcesFailed
  /\ Cardinality(RaisingSources) = 1
  => /\ ~response.isError
     /\ result = ExpectedEvents((1..NumCalendars) \ RaisingSources)

\* one calendar raised and the result holds events of two other calendars
C7_Witness ==
  /\ Responded
  /\ OperationIs("calendar", {<<"list">>, <<"find">>})
  /\ OnlySourcesFailed
  /\ Cardinality(RaisingSources) = 1
  /\ ~response.isError
  /\ Len(result) >= 2
  /\ result[1].calendarName # result[2].calendarName

ReminderOfList(r, l) == ReminderOf(r)

ReadableReminders(ok) == ConcatSources(remLists, ok, ReminderOfList, 1)

\* the reminder contains the text in its title or notes
ReminderContains(reminder, text) ==
  includes(reminder.title, text) \/ includes(reminder.notes, text)

StrictReminders(ok) ==
  LET text == request.args.o["searchText"].s
  IN SelectSeq(ReadableReminders(ok), LAMBDA reminder : ReminderContains(reminder, text))

BroadReminders(ok) ==
  LET text == toLowerCase(request.args.o["searchText"].s)
  IN SelectSeq(ReadableReminders(ok),
               LAMBDA reminder :
                 ReminderContains([title |-> toLowerCase(reminder.title),
                                   notes |-> toLowerCase(reminder.notes)], text))

\* what a reminders list or find returns when the lists in ok can be read
ExpectedReminders(ok) ==
  IF OperationIs("reminders", {<<"list">>}) THEN ReadableReminders(ok)
  ELSE IF StrictReminders(ok) = <<>> THEN BroadReminders(ok)
  ELSE StrictReminders(ok)

\* C8: a reminders list or find over lists of which exactly one raises does
\* not fail; it returns the (filtered) reminders of the other lists,
\* concatenated in list order.
C8_OneListRaises ==
  /\ Responded
  /\ OperationIs("reminders", {<<"list">>, <<"find">>})
  /\ validated
  /\ OnlySourcesFailed
  /\ Cardinality(RaisingSources) = 1
  => /\ ~response.isError
     /\ result = ExpectedReminders((1..NumLists) \ RaisingSources)

\* sources were read or searched, and every one of them raised every time
EverySourceRaised ==
  /\ \E i \in 1..Len(calls) : calls[i].src # 0
  /\ \A i \in 1..Len(calls) : calls[i].src # 0 => ~calls[i].ok

\* C9: a list or find in which every source raises, in the strict search and
\* in the fallback enumeration, fails with isError = true.
C9_AllSourcesRaise ==
  /\ Responded
  /\ \/ OperationIs("reminders", {<<"list">>, <<"find">>})
     \/ OperationIs("calendar", {<<"list">>, <<"find">>})
  /\ validated
  /\ OnlySourcesFailed
  /\ EverySourceRaised
  => response.isError

(***************************************************************************)
(* The fallback of find.                                                   *)
(***************************************************************************)
IsFind ==
  /\ \/ OperationIs("reminders", {<<"find">>})
     \/ OperationIs("calendar", {<<"find">>})
  /\ validated

CallsWhere(P(_)) == { i \in 1..Len(calls) : P(calls[i]) }

\* the fallback enumeration was started
FallbackRan == CallsWhere(LAMBDA c : c.phase = 2) # {}

\* the strict search script returned
StrictSearchReturned ==
  /\ CallsWhere(LAMBDA c : c.phase = 1 /\ c.call = "listBackingStores" /\ c.ok) # {}
  /\ request.name = "reminders"
       => CallsWhere(LAMBDA c : c.phase = 1 /\ c.src # 0 /\ ~c.ok) = {}

\* the sources the script of the given phase could read
ReadIn(ph) == { calls[i].src : i \in CallsWhere(LAMBDA c : c.phase = ph /\ c.src # 0 /\ c.ok) }

\* a date was passed to the find call of the utility
DateSupplied == request.name = "calendar" /\ SomeDateGiven

StrictItems ==
  IF request.name = "calendar" THEN StrictEvents(ReadIn(1)) ELSE StrictReminders(ReadIn(1))

BroadItems ==
  IF request.name = "calendar" THEN BroadEvents(ReadIn(2)) ELSE BroadReminders(ReadIn(2))

\* C10: in one find call the fallback enumeration runs at most once; it runs
\* exactly when the strict search returned no item and no date was supplied;
\* what it selects is returned without a further search.
C10_FallbackAtMostOnce ==
  Responded /\ IsFind =>
    /\ Cardinality(CallsWhere(LAMBDA c : c.phase = 2 /\ c.call = "probe")) <= 1
    /\ Cardinality(CallsWhere(LAMBDA c : c.phase = 2 /\ c.call = "listBackingStores")) <= 1
    /\ \A src \in SourcesOf(request.name) :
         Cardinality(CallsWhere(LAMBDA c : c.phase = 2 /\ c.src = src)) <= 1
    /\ FallbackRan <=> (StrictSearchReturned /\ StrictItems = <<>> /\ ~DateSupplied)
    /\ \A i, j \in 1..Len(calls) : i < j /\ calls[i].phase = 2 => calls[j].phase = 2
    /\ FallbackRan /\ ~response.isError => result = BroadItems
    /\ ~FallbackRan /\ ~response.isError => result = StrictItems

\* the fallback of a calendar find found what the strict search missed
C10_Witness ==
  /\ Responded
  /\ OperationIs("calendar", {<<"find">>})
  /\ validated
  /\ FallbackRan
  /\ ~response.isError
  /\ Len(result) > 0

\* a find that passes no date to the utility
TextOnlyFind == IsFind /\ ~DateSupplied

\* the positions <<source, index>> of the items of the stores
ItemPositions ==
  IF request.name = "calendar"
  THEN { p \in (1..Len(calendars)) \X (1..MaxInitItems + MaxCreated) :
           p[2] <= Len(calendars[p[1]]) }
  ELSE { p \in (1..Len(remLists)) \X (1..MaxInitItems + MaxCreated) :
           p[2] <= Len(remLists[p[1]]) }

\* the item at position p is selected by the strict predicate of the search script
StrictSelects(p, text) ==
  IF request.name = "calendar"
  THEN EventTextMatch([ev |-> calendars[p[1]][p[2]], cal |-> p[1]], text)
  ELSE ReminderWhoseMatch(remLists[p[1]][p[2]], text)

\* the item at position p is selected by the predicate of the broader search
BroadSelects(p, text) ==
  IF request.name = "calendar"
  THEN EventBroadMatch(CalendarEventOf(calendars[p[1]][p[2]], p[1]), text)
  ELSE ReminderBroadMatch(ReminderOf(remLists[p[1]][p[2]]), text)

\* C11: for a text-only find, every item the strict predicate (exact
\* substring) selects is selected by the fallback predicate (case-insensitive
\* substring) too; and the result of a fallback is a function of the backing
\* data and the text alone, so that a second run gives the same result.
C11_FallbackSupersetOfStrict ==
  Responded /\ TextOnlyFind /\ ~response.isError =>
    /\ \A p \in ItemPositions :
         StrictSelects(p, request.args.o["searchText"].s)
           => BroadSelects(p, request.args.o["searchText"].s)
    /\ FallbackRan /\ ~response.isError => result = BroadItems

(***************************************************************************)
(* Create followed by find.                                                *)
(***************************************************************************)
AllCallsOk == \A i \in 1..Len(calls) : calls[i].ok

\* the call answered is a find, without dates, of the tool whose create
\* succeeded just before it, on a text contained in the title then given;
\* the find made its bridge calls without a failure
FindAfterCreate ==
  /\ Responded
  /\ IsCreate(previous.request)
  /\ previous.request.name = request.name
  /\ TextOnlyFind
  /\ includes(previous.request.args.o["title"].s, request.args.o["searchText"].s)
  /\ AllCallsOk
  /\ ~response.isError

\* the value of an optional text property of the create request
GivenText(f) ==
  IF Truthy(previous.request.args.o[f]) THEN previous.request.args.o[f].s ELSE <<>>

\* the fields of the found reminder are those of the create request
ReminderEqualsInput(r) ==
  /\ r.id = previous.result.id
  /\ r.title = previous.request.args.o["title"].s
  /\ r.notes = GivenText("notes")
  /\ IF Truthy(previous.request.args.o["dueDate"])
     THEN /\ r.dueDate.t = "string"
          /\ NewDate(r.dueDate.s) = NewDate(previous.request.args.o["dueDate"].s)
     ELSE r.dueDate = Null
  /\ r.isCompleted = FALSE

\* the fields of the found event are those of the create request
EventEqualsInput(e) ==
  /\ e.id = previous.result.id
  /\ e.title = previous.request.args.o["title"].s
  /\ e.description = GivenText("description")
  /\ e.location = GivenText("location")
  /\ NewDate(e.startDate) = NewDate(previous.request.args.o["startDate"].s)
  /\ NewDate(e.endDate).ms = NewDate(previous.request.args.o["startDate"].s).ms
                               + previous.request.args.o["duration"].n

ItemEqualsInput(item) ==
  IF request.name = "calendar" THEN EventEqualsInput(item) ELSE ReminderEqualsInput(item)

Distinguishing ==
  Cardinality({ p \in ItemPositions :
                  \/ StrictSelects(p, request.args.o["searchText"].s)
                  \/ BroadSelects(p, request.args.o["searchText"].s) }) = 1

WithId(lists, id) ==
  { p \in (1..Len(lists)) \X (1..MaxInitItems + MaxCreated) :
      p[2] <= Len(lists[p[1]]) /\ lists[p[1]][p[2]].id = id }

\* the handler runs a complete request of the reminders tool
CompletesId ==
  /\ pc = "pending"
  /\ pc' = "responded"
  /\ OperationIs("reminders", {<<"complete">>})
  /\ validated'

\* C13: a reminders complete request whose id no reminder of any list has
\* returns isError = true and leaves the completed flag of every reminder,
\* and the lists altogether, as they were.
C13_CompleteUnknownId ==
  [][ CompletesId /\ WithId(remLists, request.args.o["id"].s) = {} =>
        /\ response'.isError
        /\ remLists' = remLists ]_vars

\* every list was read without a failure and none holds the id, in lists of
\* which one reminder is completed
C13_Witness ==
  /\ Responded
  /\ OperationIs("reminders", {<<"complete">>})
  /\ WithId(remLists, request.args.o["id"].s) = {}
  /\ AllCallsOk
  /\ Len(calls) = NumLists + 2
  /\ response.isError
  /\ \E l \in 1..Len(remLists) : \E i \in 1..Len(remLists[l]) : remLists[l][i].completed

\* the first position, in list order and then in-list order, among ps
FirstPosition(ps) ==
  CHOOSE p \in ps : \A q \in ps : p[1] < q[1] \/ (p[1] = q[1] /\ p[2] <= q[2])

\* C14: a reminders complete request whose id a reminder has, with its bridge
\* calls succeeding, returns isError = false and leaves that reminder (the
\* first one with the id) completed; when it repeats the complete request
\* that succeeded just before it, it leaves the lists exactly as they were.
C14_CompleteExistingId ==
  [][ /\ CompletesId
      /\ WithId(remLists, request.args.o["id"].s) # {}
      /\ AllCallsOk'
      => /\ ~response'.isError
         /\ LET p == FirstPosition(WithId(remLists, request.args.o["id"].s))
            IN remLists'[p[1]][p[2]].completed
         /\ previous.request = request => remLists' = remLists ]_vars

\* the complete request that had just succeeded was issued again and succeeded
C14_Witness ==
  /\ Responded
  /\ OperationIs("reminders", {<<"complete">>})
  /\ previous.request = request
  /\ AllCallsOk
  /\ ~response.isError
  /\ LET p == FirstPosition(WithId(remLists, request.args.o["id"].s))
     IN remLists[p[1]][p[2]].completed

\* C17: one reminders complete call changes at most the completed flag of the
\* first reminder, in list order and then in-list order, that has the given
\* id; every other reminder, a reminder with the same id in a later list
\* included, and every other field are left as they were.
C17_CompleteChangesOneReminder ==
  [][ CompletesId =>
        LET ps == WithId(remLists, request.args.o["id"].s)
        IN /\ DOMAIN remLists' = DOMAIN remLists
           /\ \A l \in DOMAIN remLists :
                /\ DOMAIN remLists'[l] = DOMAIN remLists[l]
                /\ \A i \in DOMAIN remLists[l] :
                     IF ps # {} /\ <<l, i>> = FirstPosition(ps)
                     THEN /\ [remLists'[l][i] EXCEPT !.completed = FALSE]
                               = [remLists[l][i] EXCEPT !.completed = FALSE]
                          /\ remLists[l][i].completed => remLists'[l][i].completed
                     ELSE remLists'[l][i] = remLists[l][i] ]_vars

\* two lists hold a reminder with the id: the one of the first list has been
\* completed by the call, the one of the later list is not completed
C17_Witness ==
  /\ Responded
  /\ OperationIs("reminders", {<<"complete">>})
  /\ ~response.isError
  /\ \E p, q \in WithId(remLists, request.args.o["id"].s) :
       /\ p[1] < q[1]
       /\ remLists[p[1]][p[2]].completed
       /\ ~remLists[q[1]][q[2]].completed

(***************************************************************************)
(* The dates of calendar find and calendar create.                         *)
(***************************************************************************)
\* the interval of the event and the range of the request have a point in common
EventIntersectsDates(event) ==
  /\ NewDate(event.startDate).ms <= NewDate(request.args.o["endDate"].s).ms
  /\ NewDate(event.endDate).ms >= NewDate(request.args.o["startDate"].s).ms

\* C15: a calendar find with both dates returns exactly the events that
\* contain the text in title, description or location and whose interval
\* [start, end] intersects the inclusive range [startDate, endDate], in
\* calendar order.
C15_FindWithinDateRange ==
  /\ Responded
  /\ OperationIs("calendar", {<<"find">>})
  /\ validated
  /\ BothDatesGiven
  /\ AllCallsOk
  /\ ~response.isError
  => result = SelectSeq(ReadableEvents(1..NumCalendars),
                        LAMBDA event :
                          /\ EventContains(event, request.args.o["searchText"].s)
                          /\ EventIntersectsDates(event))

\* the events of the calendars, as sets of event objects
EventsOf(cals) == UNION { { cals[c][i] : i \in 1..Len(cals[c]) } : c \in 1..Len(cals) }

\* C16: a calendar create request that passes validation has a duration that
\* is not negative, and an event it creates ends duration minutes after its
\* start, so not before it; a create request with a negative duration gets
\* isError = true and creates no event.
C16_DurationNotNegative ==
  [][ /\ pc = "pending"
      /\ pc' = "responded"
      /\ OperationIs("calendar", {<<"create">>})
      => /\ validated' => /\ request.args.o["duration"].t = "number"
                          /\ request.args.o["duration"].n >= 0
         /\ \A e \in EventsOf(calendars') \ EventsOf(calendars) :
              /\ e.endDate = e.startDate + request.args.o["duration"].n
              /\ e.endDate >= e.startDate
         /\ (request.args.o["duration"].t = "number" /\ request.args.o["duration"].n < 0)
              => response'.isError /\ calendars' = calendars ]_vars

\* the request supplies exactly one of startDate and endDate
OneDateGiven == SomeDateGiven /\ ~BothDatesGiven

====
